---- MODULE Spec2Model ----
(***************************************************************************)
(* A model of xen/common/libelf/libelf-loader.c: elf_init,                 *)
(* elf_parse_bsdsyms, elf_parse_binary, elf_load_binary and the helpers    *)
(* they call, driven by a caller that runs one parse/load session.         *)
(*                                                                         *)
(* 64-bit unsigned values.  A uint64_t value v is written as the integer   *)
(* of smallest magnitude congruent to v modulo 2^64: a small v is itself,  *)
(* and 2^64 - k is -k.  Addition, subtraction and multiplication of such   *)
(* values in the integers are then exactly the wrapping operations of C    *)
(* (as long as magnitudes stay far below 2^63, which the input sets        *)
(* guarantee), and only the comparisons need care: ULt, ULe, UGt below     *)
(* compare as unsigned.  The model is of an LP64 build (unsigned long and  *)
(* pointers are 64 bits wide).  Fields of a narrow (ELFCLASS32) image are  *)
(* 32 bits wide and zero-extended by the accessor, so they are drawn from  *)
(* the small non-negative values only.                                     *)
(***************************************************************************)
EXTENDS Integers, Sequences, FiniteSets, TLC

(* ---------------------------------------------------------------- bounds *)

\* Largest number of program-header entries of an image.
MaxPh == 2
\* Largest number of section-header entries of an image.
MaxSh == 2
\* Size in bytes of every image.
ImgSize == 8
\* Largest destination window the caller hands over.
MaxDest == 56
\* Size of the small destination window, too small for most footprints.
SmallDest == 3

(* ------------------------------------------------- unsigned 64-bit values *)

ULt(a, b) == IF (a < 0) = (b < 0) THEN a < b ELSE a >= 0

ULe(a, b) == a = b \/ ULt(a, b)

UGt(a, b) == ULt(b, a)

\* Whether the true (unbounded) value of a + b leaves the 64-bit range.
Wraps(a, b) ==
    \/ a < 0 /\ b < 0
    \/ a < 0 /\ b >= 0 /\ a + b >= 0
    \/ a >= 0 /\ b < 0 /\ a + b >= 0

\* ULONG_MAX of the LP64 build: 2^64 - 1.
ULONG_MAX == 0 - 1

(* ------------------------------------------------------------ the context *)

NullPtr == [base |-> "null", off |-> 0]

ImagePtr(off) == [base |-> "image", off |-> off]

\* ELF_INVALID_HANDLE: the all-zero handle.  A section handle is the
\* 1-based position of its entry in the section-header table.
InvalidHandle == 0

\* struct elf_binary after elf_memset_unchecked(elf, 0, sizeof(*elf)).
ZeroElf ==
    [ image_base |-> "null", size |-> 0, ehdr |-> "null",
      class |-> "none", data |-> "none",
      sec_strtab |-> NullPtr, sym_tab |-> InvalidHandle, sym_strtab |-> NullPtr,
      pstart |-> 0, pend |-> 0,
      bsd_symtab_pstart |-> 0, bsd_symtab_pend |-> 0,
      dest_base |-> 0, dest_size |-> 0,
      caller_xdest_base |-> 0, caller_xdest_size |-> 0 ]

\* A context an earlier session left behind.
StaleElf ==
    [ image_base |-> "stale", size |-> 3, ehdr |-> "stale",
      class |-> "ELFCLASS32", data |-> "ELFDATA2MSB",
      sec_strtab |-> ImagePtr(1), sym_tab |-> 1, sym_strtab |-> ImagePtr(2),
      pstart |-> 1, pend |-> 2,
      bsd_symtab_pstart |-> 4, bsd_symtab_pend |-> 8,
      dest_base |-> 16, dest_size |-> 4,
      caller_xdest_base |-> 16, caller_xdest_size |-> 4 ]

(* -------------------------------------------------------------- variables *)

VARIABLES
    image,      \* the image handed to elf_init: header fields and tables
    regime,     \* "XEN" (trusted, __XEN__ defined) or "TOOLS" (defensive)
    proposed,   \* the start address the caller proposes to elf_parse_bsdsyms
    window,     \* the destination window the caller allocates: base, size
    elf,        \* struct elf_binary
    elf0,       \* the context as it was when the session started
    pc,         \* the caller's position in the session
    initRet,    \* what elf_init returned ("none" before the call)
    loadRet,    \* what elf_load_binary returned ("none" before the call)
    shReads,    \* section-header entries elf_init read a field of
    bsdCalled,  \* whether elf_parse_bsdsyms was called
    mem,        \* the destination window: mem[a + 1] is the byte at offset a
    log,        \* the stores elf_load_binary attempted, in order
    symWord     \* the embedded region's prefix and rewritten header fields

vars == << image, regime, proposed, window, elf, elf0, pc, initRet, loadRet, shReads,
           bsdCalled, mem, log, symWord >>

(* ---------------------------------------------------- accessors of an image *)

\* elf_is_elfbinary: the magic check (with the size of a minimal header).
elf_is_elfbinary(img) == img.magic

elf_64bit(e) == e.class = "ELFCLASS64"

elf_phdr_count(img) == img.e_phnum

elf_shdr_count(img) == img.e_shnum

\* elf_shdr_by_index: the handle of entry index, invalid past the table.
elf_shdr_by_index(img, index) ==
    IF index >= 0 /\ index < elf_shdr_count(img) THEN index + 1 ELSE InvalidHandle

ELF_HANDLE_VALID(h) == h # InvalidHandle

\* elf_section_start: image_base + sh_offset.
elf_section_start(img, h) == ImagePtr(img.shdrs[h].sh_offset)

\* elf_phdr_is_loadable.
elf_phdr_is_loadable(ph) == ph.p_type = "PT_LOAD"

\* elf_round_up: to the natural alignment of the image's class.
elf_round_up(e, addr) ==
    LET align == IF elf_64bit(e) THEN 8 ELSE 4
    IN  ((addr + align - 1) \div align) * align

(* ----------------------------------------------------------------- elf_init *)

\* The scan stopping at the first symbol table whatever its link.
ScanBreaks == FALSE

\* Line 85: after a symbol table whose link is invalid the scan continues.
ScanGoesOn == TRUE

\* Lines 73-89: the scan for the symbol table, from entry i on.
RECURSIVE SymScan(_, _, _)
SymScan(img, i, e) ==
    IF i >= elf_shdr_count(img) THEN [elf |-> e, reads |-> {}]
    ELSE LET shdr == elf_shdr_by_index(img, i)
         IN  IF img.shdrs[shdr].sh_type # "SHT_SYMTAB"
             THEN LET r == SymScan(img, i + 1, e)
                  IN  [r EXCEPT !.reads = @ \cup {shdr}]
             ELSE LET e1 == [e EXCEPT !.sym_tab = shdr]
                      lnk == elf_shdr_by_index(img, img.shdrs[shdr].sh_link)
                  IN  IF ~ELF_HANDLE_VALID(lnk)
                      THEN LET e2 == [e1 EXCEPT !.sym_tab = InvalidHandle]
                               r == IF ScanGoesOn THEN SymScan(img, i + 1, e2)
                                    ELSE [elf |-> e2, reads |-> {}]
                           IN  [r EXCEPT !.reads = @ \cup {shdr}]
                      ELSE [elf |-> [e1 EXCEPT !.sym_strtab =
                                                  elf_section_start(img, lnk)],
                            reads |-> {shdr}]

\* The context zeroed before the magic check rather than after it.
InitMagicFailZeroed(e) == ZeroElf

\* Lines 32-36: the context elf_init leaves when the magic check fails.
InitMagicFail(e) == e

\* Lines 38-45: the context once the magic check has passed.
InitHeader(img) ==
    [ZeroElf EXCEPT !.image_base = "image", !.size = img.size,
                    !.ehdr = "image", !.class = img.class, !.data = img.data]

\* Lines 27-92.  The result: rc, the context, the table entries read.
InitResult(e, img) ==
    IF ~elf_is_elfbinary(img)
    THEN [rc |-> "failure", elf |-> InitMagicFail(e), reads |-> {}]
    ELSE LET e1 == InitHeader(img)
             phend == img.e_phoff + img.e_phentsize * elf_phdr_count(img)
             shend == img.e_shoff + img.e_shentsize * elf_shdr_count(img)
         IN  IF UGt(phend, e1.size) THEN [rc |-> "failure", elf |-> e1, reads |-> {}]
             ELSE IF UGt(shend, e1.size) THEN [rc |-> "failure", elf |-> e1, reads |-> {}]
             ELSE LET shdr == elf_shdr_by_index(img, img.e_shstrndx)
                      e2 == IF ELF_HANDLE_VALID(shdr)
                            THEN [e1 EXCEPT !.sec_strtab =
                                               elf_section_start(img, shdr)]
                            ELSE e1
                      r == SymScan(img, 0, e2)
                  IN  [rc |-> "success", elf |-> r.elf, reads |-> r.reads]

elf_init ==
    /\ pc = "start"
    /\ LET r == InitResult(elf, image)
       IN  /\ elf' = r.elf
           /\ initRet' = r.rc
           /\ shReads' = r.reads
           /\ pc' = IF r.rc = "success" THEN "inited" ELSE "init_failed"
    /\ UNCHANGED << image, regime, proposed, window, elf0, loadRet, bsdCalled, mem, log,
                    symWord >>

(* -------------------------------------------------------- elf_parse_bsdsyms *)

\* sizeof(uint32_t): the size prefix of the embedded region.
SizeofU32 == 4

IsSymOrStr(type) == type = "SHT_STRTAB" \/ type = "SHT_SYMTAB"

\* Lines 169-176: the sizes of the string and symbol tables, from entry i on.
RECURSIVE SymSizeLoop(_, _, _, _)
SymSizeLoop(e, img, i, sz) ==
    IF i >= elf_shdr_count(img) THEN sz
    ELSE LET shdr == img.shdrs[elf_shdr_by_index(img, i)]
         IN  SymSizeLoop(e, img, i + 1,
                         IF IsSymOrStr(shdr.sh_type)
                         THEN elf_round_up(e, sz + shdr.sh_size)
                         ELSE sz)

\* The sizing without the 4 bytes of the prefix.
SymHeadSizeNoPrefix(e, img) ==
    elf_round_up(e, img.e_ehsize + elf_shdr_count(img) * img.e_shentsize)

\* Lines 161-167: the prefix, the header and the section headers.
SymHeadSize(e, img) ==
    elf_round_up(e, SizeofU32 + (img.e_ehsize
                                 + elf_shdr_count(img) * img.e_shentsize))

\* Lines 150-180: the context after elf_parse_bsdsyms(elf, pstart).
ParseBsdsyms(e, img, pstart) ==
    IF ~ELF_HANDLE_VALID(e.sym_tab) THEN e
    ELSE LET p == elf_round_up(e, pstart)
             sz == SymSizeLoop(e, img, 0, SymHeadSize(e, img))
         IN  [e EXCEPT !.bsd_symtab_pstart = p, !.bsd_symtab_pend = p + sz]

elf_parse_bsdsyms ==
    /\ pc \in {"inited", "parsed"}
    /\ ~bsdCalled
    /\ elf' = ParseBsdsyms(elf, image, proposed)
    /\ bsdCalled' = TRUE
    /\ UNCHANGED << image, regime, proposed, window, elf0, pc, initRet, loadRet, shReads, mem, log,
                    symWord >>

(* --------------------------------------------------------- elf_parse_binary *)

\* The comparison of line 265 dropped: the last loadable entry sets low.
ParseStepLastLow(ph, lh) ==
    LET paddr == ph.p_paddr
        memsz == ph.p_memsz
    IN  [low |-> paddr,
         high |-> IF ULt(lh.high, paddr + memsz) THEN paddr + memsz ELSE lh.high]

\* Lines 265-268: low and high after one loadable entry.
ParseStep(ph, lh) ==
    LET paddr == ph.p_paddr
        memsz == ph.p_memsz
    IN  [low |-> IF UGt(lh.low, paddr) THEN paddr ELSE lh.low,
         high |-> IF ULt(lh.high, paddr + memsz) THEN paddr + memsz ELSE lh.high]

\* Lines 255-269: the loop over the program headers, from entry i on.
RECURSIVE ParseLoop(_, _, _)
ParseLoop(img, i, lh) ==
    IF i >= img.e_phnum THEN lh
    ELSE LET ph == img.phdrs[i + 1]
         IN  ParseLoop(img, i + 1,
                       IF elf_phdr_is_loadable(ph) THEN ParseStep(ph, lh) ELSE lh)

\* Lines 248-274: the context after elf_parse_binary(elf).
ParseBinary(e, img) ==
    LET lh == ParseLoop(img, 0, [low |-> 0 - 1, high |-> 0])
    IN  [e EXCEPT !.pstart = lh.low, !.pend = lh.high]

elf_parse_binary ==
    /\ pc = "inited"
    /\ elf' = ParseBinary(elf, image)
    /\ pc' = "parsed"
    /\ UNCHANGED << image, regime, proposed, window, elf0, initRet, loadRet, shReads, bsdCalled,
                    mem, log, symWord >>

(* ------------------------------------------------- the caller's destination *)

\* The caller records the destination it allocated in the context.
set_dest ==
    /\ pc = "parsed"
    /\ elf' = [elf EXCEPT !.dest_base = window.base, !.dest_size = window.size]
    /\ pc' = "ready"
    /\ UNCHANGED << image, regime, proposed, window, elf0, initRet, loadRet, shReads, bsdCalled,
                    mem, log, symWord >>

(* ------------------------------------------------------- memory primitives *)

\* The byte of the image at offset o.  Distinct offsets hold distinct,
\* non-zero bytes, so a copy from the wrong place shows.
ImageByte(o) == o + 1

\* What a read at image offset o yields: past the image (an overrun the
\* trusted regime does not check for) it yields whatever lies there, g.
SrcByte(e, g, o) == IF o >= 0 /\ o < e.size THEN ImageByte(o) ELSE g

\* elf_access_ok for a range of the destination: [ptr, ptr + n) lies in
\* the window the caller declared.
DestOk(e, ptr, n) ==
    LET off == ptr - e.dest_base
    IN  off >= 0 /\ n >= 0 /\ off + n <= e.dest_size

\* elf_access_ok for a range of the image, given by its offset.
SrcOk(e, off, n) == off >= 0 /\ n >= 0 /\ off + n <= e.size

\* The byte of the destination window at offset a from its base.
MemAt(m, a) == m[a + 1]

\* The destination after an attempted store of n bytes at ptr; byte k of
\* the store is bytes[k].  A store that is not ok writes nothing.
Store(e, st, kind, idx, ptr, n, ok, bytes) ==
    LET off == ptr - e.dest_base
    IN  [st EXCEPT
           !.mem = IF ok
                   THEN [a \in DOMAIN st.mem |->
                           IF a - 1 >= off /\ a - 1 < off + n
                           THEN bytes[a - 1 - off]
                           ELSE st.mem[a]]
                   ELSE st.mem,
           !.log = Append(st.log, [kind |-> kind, idx |-> idx, ptr |-> ptr,
                                   n |-> n, ok |-> ok])]

\* elf_memcpy_safe: both ranges are checked before any byte is written.
elf_memcpy_safe(e, st, kind, idx, dst, src, n) ==
    LET ok == DestOk(e, dst, n) /\ SrcOk(e, src, n)
    IN  Store(e, st, kind, idx, dst, n, ok,
              [k \in 0 .. (IF ok THEN n - 1 ELSE -1) |-> ImageByte(src + k)])

\* elf_memset_safe(elf, dst, 0, n).
elf_memset_safe(e, st, kind, idx, dst, n) ==
    LET ok == DestOk(e, dst, n)
    IN  Store(e, st, kind, idx, dst, n, ok,
              [k \in 0 .. (IF ok THEN n - 1 ELSE -1) |-> 0])

\* raw_copy_to_guest: fails when the range is not mapped in the guest (the
\* window is what is mapped); the source is not checked.
raw_copy_to_guest(e, st, g, idx, dst, src, n) ==
    LET ok == n = 0 \/ DestOk(e, dst, n)
    IN  Store(e, st, "copy", idx, dst, n, ok,
              [k \in 0 .. (IF ok THEN n - 1 ELSE -1) |-> SrcByte(e, g, src + k)])

\* raw_clear_guest.
raw_clear_guest(e, st, idx, dst, n) ==
    LET ok == n = 0 \/ DestOk(e, dst, n)
    IN  Store(e, st, "zero", idx, dst, n, ok,
              [k \in 0 .. (IF ok THEN n - 1 ELSE -1) |-> 0])

LastOk(st) == st.log[Len(st.log)].ok

(* ------------------------------------------------------------ elf_load_image *)

\* Lines 117-124: the defensive regime (__XEN__ not defined).
LoadImageTools(e, st, idx, dst, src, filesz, memsz) ==
    LET s1 == elf_memcpy_safe(e, st, "copy", idx, dst, src, filesz)
        s2 == elf_memset_safe(e, s1, "zero", idx, dst + filesz, memsz - filesz)
    IN  [rc |-> "success", st |-> s2]

\* Lines 132-146: the trusted regime (__XEN__ defined).
LoadImageXen(e, st, g, idx, dst, src, filesz, memsz) ==
    IF UGt(filesz, ULONG_MAX) \/ UGt(memsz, ULONG_MAX)
    THEN [rc |-> "failure", st |-> st]
    ELSE LET s1 == raw_copy_to_guest(e, st, g, idx, dst, src, filesz)
         IN  IF ~LastOk(s1) THEN [rc |-> "failure", st |-> s1]
             ELSE LET s2 == raw_clear_guest(e, s1, idx, dst + filesz,
                                            memsz - filesz)
                  IN  IF ~LastOk(s2) THEN [rc |-> "failure", st |-> s2]
                      ELSE [rc |-> "success", st |-> s2]

elf_load_image(e, st, g, idx, dst, src, filesz, memsz) ==
    IF regime = "XEN"
    THEN LoadImageXen(e, st, g, idx, dst, src, filesz, memsz)
    ELSE LoadImageTools(e, st, idx, dst, src, filesz, memsz)

(* --------------------------------------------------------------- elf_get_ptr *)

\* The address taken as an offset from the destination base as it is.
elf_get_ptr_unbased(e, addr) == e.dest_base + addr

\* Lines 303-306.
elf_get_ptr(e, addr) == e.dest_base + addr - e.pstart

(* ---------------------------------------------------------- elf_load_bsdsyms *)

\* The embedded region before elf_load_bsdsyms has stored anything.
NoSym ==
    [prefix |-> [stored |-> FALSE, val |-> 0],
     ehdr |-> [stored |-> FALSE, e_phoff |-> 0, e_shoff |-> 0,
               e_phentsize |-> 0, e_phnum |-> 0],
     sh_offset |-> << >>]

\* Line 192: the embedder runs only for a non-zero start address.
SymRequested(e) == e.bsd_symtab_pstart # 0

\* Lines 225-240: the copies of the string and symbol tables, from entry i
\* on.  The entries are read from the copied table: copied says whether
\* that copy was made (a table that was not copied reads as zeroes).
RECURSIVE SymCopyLoop(_, _, _, _, _, _, _)
SymCopyLoop(e, img, copied, symtab_addr, i, st, maxva) ==
    IF i >= elf_shdr_count(img) THEN [st |-> st, maxva |-> maxva]
    ELSE LET shdr == img.shdrs[i + 1]
             type == IF copied THEN shdr.sh_type ELSE "SHT_NULL"
         IN  IF IsSymOrStr(type)
             THEN LET sz == shdr.sh_size
                      s1 == elf_memcpy_safe(e, st, "sym", i, maxva,
                                            shdr.sh_offset, sz)
                      s2 == [s1 EXCEPT !.sym.sh_offset[i + 1] =
                                           maxva - symtab_addr]
                  IN  SymCopyLoop(e, img, copied, symtab_addr, i + 1, s2,
                                  elf_round_up(e, maxva + sz))
             ELSE SymCopyLoop(e, img, copied, symtab_addr, i + 1, st, maxva)

\* Lines 182-246.
LoadBsdsyms(e, img, st) ==
    IF ~SymRequested(e) THEN st
    ELSE LET symbase == elf_get_ptr(e, e.bsd_symtab_pstart)
             symtab_addr == symbase + SizeofU32
             \* Lines 206-215: the header, its program-header fields zeroed.
             s1 == elf_memcpy_safe(e, st, "sym", -1, symtab_addr, 0,
                                   img.e_ehsize)
             s2 == IF LastOk(s1)
                   THEN [s1 EXCEPT !.sym.ehdr =
                           [stored |-> TRUE, e_phoff |-> 0,
                            e_shoff |-> img.e_ehsize,
                            e_phentsize |-> 0, e_phnum |-> 0]]
                   ELSE s1
             maxva1 == symtab_addr + img.e_ehsize
             \* Lines 217-223: the section headers.
             shsz == elf_shdr_count(img) * img.e_shentsize
             s3 == elf_memcpy_safe(e, s2, "sym", -1, maxva1, img.e_shoff, shsz)
             copied == LastOk(s3)
             s4 == IF copied
                   THEN [s3 EXCEPT !.sym.sh_offset =
                           [k \in 1 .. elf_shdr_count(img) |->
                              img.shdrs[k].sh_offset]]
                   ELSE s3
             maxva2 == elf_round_up(e, maxva1 + shsz)
             r == SymCopyLoop(e, img, copied, symtab_addr, 0, s4, maxva2)
             \* Line 243: the size, stored in the prefix.
             pok == DestOk(e, symbase, SizeofU32)
             s5 == Store(e, r.st, "prefix", -1, symbase, SizeofU32, pok,
                         [k \in 0 .. SizeofU32 - 1 |-> 255])
         IN  IF pok
             THEN [s5 EXCEPT !.sym.prefix =
                     [stored |-> TRUE, val |-> r.maxva - symtab_addr]]
             ELSE s5

(* ----------------------------------------------------------- elf_load_binary *)

\* Lines 282-297: the loop over the program headers, from entry i on.
RECURSIVE LoadLoop(_, _, _, _, _)
LoadLoop(e, img, g, i, st) ==
    IF i >= img.e_phnum THEN [rc |-> "success", st |-> st]
    ELSE LET phdr == img.phdrs[i + 1]
         IN  IF ~elf_phdr_is_loadable(phdr) THEN LoadLoop(e, img, g, i + 1, st)
             ELSE LET dest == elf_get_ptr(e, phdr.p_paddr)
                      r == elf_load_image(e, st, g, i, dest, phdr.p_offset,
                                          phdr.p_filesz, phdr.p_memsz)
                  IN  IF r.rc # "success" THEN [rc |-> "failure", st |-> r.st]
                      ELSE LoadLoop(e, img, g, i + 1, r.st)

\* Lines 276-301.
LoadBinary(e, img, g, st) ==
    LET r == LoadLoop(e, img, g, 0, st)
    IN  IF r.rc # "success" THEN r
        ELSE [rc |-> "success", st |-> LoadBsdsyms(e, img, r.st)]

\* What a read past the end of the image may yield.
Garbage == {0, 255}

elf_load_binary ==
    /\ pc = "ready"
    /\ \E g \in Garbage :
          LET r == LoadBinary(elf, image, g,
                              [mem |-> mem, log |-> log, sym |-> symWord])
          IN  /\ mem' = r.st.mem
              /\ log' = r.st.log
              /\ symWord' = r.st.sym
              /\ loadRet' = r.rc
    /\ pc' = "loaded"
    /\ UNCHANGED << image, regime, proposed, window, elf, elf0, initRet, shReads, bsdCalled >>

(* ------------------------------------------------------------------ inputs *)

SeqsUpTo(S, n) == UNION {[1 .. k -> S] : k \in 0 .. n}

Classes == {"ELFCLASS32", "ELFCLASS64"}

\* A field of an image of class c that is 64 bits wide in the wide layout
\* may hold a value near 2^64 there; in the narrow layout it is 32 bits.
Wide(c, S) == IF c = "ELFCLASS64" THEN S ELSE {}

\* The program header the images carry that do not vary theirs.
PlainPh(k) ==
    [p_type |-> "PT_LOAD", p_paddr |-> 2 * k, p_offset |-> 0,
     p_filesz |-> 1, p_memsz |-> 2]

PlainPhdrs(n) == [k \in 1 .. n |-> PlainPh(k)]

Sh(t, l, n, o) ==
    [sh_type |-> t, sh_link |-> l, sh_size |-> n, sh_offset |-> o]

\* Images that vary the header: the magic, the class, where the two tables
\* lie, and the types and links of the sections.
HeaderSections ==
    {Sh("SHT_SYMTAB", l, 1, 3) : l \in {0, 1, MaxSh}}
        \cup {Sh("SHT_STRTAB", 0, 1, o) : o \in {1, 2}}
        \cup {Sh("SHT_NULL", 0, 0, 0)}

HeaderImages ==
    {[magic |-> m, class |-> c, data |-> "ELFDATA2LSB", size |-> ImgSize,
      e_ehsize |-> 4, e_phoff |-> po, e_phentsize |-> 2, e_phnum |-> pn,
      e_shoff |-> so, e_shentsize |-> 2, e_shnum |-> Len(sh),
      e_shstrndx |-> sx, phdrs |-> PlainPhdrs(pn), shdrs |-> sh] :
        m \in {TRUE}, c \in {"ELFCLASS32"}, po \in {4, ImgSize - 1},
        pn \in 0 .. MaxPh, so \in {4, ImgSize - 1},
        sh \in SeqsUpTo(HeaderSections, MaxSh), sx \in {0}}
    \cup
    {[magic |-> m, class |-> c, data |-> "ELFDATA2LSB", size |-> ImgSize,
      e_ehsize |-> 4, e_phoff |-> po, e_phentsize |-> 2, e_phnum |-> pn,
      e_shoff |-> so, e_shentsize |-> 2, e_shnum |-> Len(sh),
      e_shstrndx |-> sx, phdrs |-> PlainPhdrs(pn), shdrs |-> sh] :
        m \in {TRUE}, c \in {"ELFCLASS64"}, po \in {4, ImgSize - 1, 0 - 2},
        pn \in 0 .. MaxPh, so \in {4, ImgSize - 1, 0 - 2},
        sh \in SeqsUpTo(HeaderSections, MaxSh), sx \in {0}}
    \cup
    {[magic |-> FALSE, class |-> c, data |-> "ELFDATA2LSB", size |-> ImgSize,
      e_ehsize |-> 4, e_phoff |-> 4, e_phentsize |-> 2, e_phnum |-> 1,
      e_shoff |-> 4, e_shentsize |-> 2, e_shnum |-> 0,
      e_shstrndx |-> 0, phdrs |-> PlainPhdrs(1), shdrs |-> << >>] :
        c \in Classes}

\* Images that vary the program headers.
\* The file offset, file size and memory size of a loadable entry: no
\* tail, a tail to zero, a memory size below the file size, and file bytes
\* that run past the end of the image.
LoadExtents ==
    {<<1, 1, 1>>, <<1, 2, 3>>, <<1, 2, 1>>, <<ImgSize - 1, 2, 3>>}

LoadEntries(c) ==
    {[p_type |-> "PT_LOAD", p_paddr |-> a, p_offset |-> x[1],
      p_filesz |-> x[2], p_memsz |-> x[3]] :
        a \in {2, 4} \cup Wide(c, {0 - 3}), x \in LoadExtents}
    \cup {[p_type |-> "PT_NOTE", p_paddr |-> 0, p_offset |-> 0,
           p_filesz |-> 2, p_memsz |-> 2]}

LoadImages ==
    UNION {
      {[magic |-> TRUE, class |-> c, data |-> "ELFDATA2LSB", size |-> ImgSize,
        e_ehsize |-> 4, e_phoff |-> 4, e_phentsize |-> 1, e_phnum |-> Len(ph),
        e_shoff |-> 4, e_shentsize |-> 1, e_shnum |-> 0,
        e_shstrndx |-> 0, phdrs |-> ph, shdrs |-> << >>] :
          ph \in SeqsUpTo(LoadEntries(c), MaxPh)} : c \in Classes}

\* Images that vary the sections the embedder sizes and copies.
SymSections ==
    {Sh("SHT_SYMTAB", l, n, 0) : l \in {0, MaxSh}, n \in {1, ImgSize + 1}}
        \cup {Sh("SHT_STRTAB", 0, n, 0) : n \in {1, ImgSize + 1}}
        \cup {Sh("SHT_NULL", 0, 0, 0)}

SymImages ==
    {[magic |-> TRUE, class |-> c, data |-> "ELFDATA2LSB", size |-> ImgSize,
      e_ehsize |-> eh, e_phoff |-> 4, e_phentsize |-> 1, e_phnum |-> 1,
      e_shoff |-> 4, e_shentsize |-> 1, e_shnum |-> Len(sh),
      e_shstrndx |-> 0,
      phdrs |-> PlainPhdrs(1), shdrs |-> sh] :
        c \in Classes, eh \in {2, 4},
        sh \in SeqsUpTo(SymSections, MaxSh)}

Window(b, n) == [base |-> b, size |-> n]

(* --------------------------------------------------------------- the session *)

InitWith(images, regimes, contexts, starts, dests) ==
    /\ image \in images
    /\ regime \in regimes
    /\ proposed \in starts
    /\ window \in dests
    /\ elf \in contexts
    /\ elf0 = elf
    /\ pc = "start"
    /\ initRet = "none"
    /\ loadRet = "none"
    /\ shReads = {}
    /\ bsdCalled = FALSE
    /\ mem = [a \in 1 .. window.size |-> 0]
    /\ log = << >>
    /\ symWord = NoSym

Init ==
    InitWith(HeaderImages, {"TOOLS"}, {ZeroElf, StaleElf}, {8},
             {Window(16, MaxDest)})

InitLoad ==
    InitWith(LoadImages, {"XEN", "TOOLS"}, {ZeroElf}, {8},
             {Window(16, SmallDest), Window(16, MaxDest)})

InitSyms ==
    InitWith(SymImages, {"TOOLS"}, {ZeroElf}, {0, 6, 8},
             {Window(16, MaxDest), Window(18, MaxDest)})

Next ==
    \/ elf_init
    \/ elf_parse_bsdsyms
    \/ elf_parse_binary
    \/ set_dest
    \/ elf_load_binary

Spec == Init /\ [][Next]_vars

SpecLoad == InitLoad /\ [][Next]_vars

SpecSyms == InitSyms /\ [][Next]_vars

(* ------------------------------------------------------ properties: elf_init *)

InitReturned == initRet # "none"

\* Whether the true (unbounded) value of off + entsize * count exceeds size.
TrueExceeds(off, entsize, count, size) == off < 0 \/ off + entsize * count > size

PhdrTableExceeds ==
    TrueExceeds(image.e_phoff, image.e_phentsize, image.e_phnum, image.size)

ShdrTableExceeds ==
    TrueExceeds(image.e_shoff, image.e_shentsize, image.e_shnum, image.size)

\* C1: for an image that passes the magic check, if the true value of
\* e_phoff + e_phentsize * e_phnum or of e_shoff + e_shentsize * e_shnum
\* exceeds the image size then elf_init returns failure and has read no
\* entry of a table, also when the 64-bit sum wraps around.
C1_TableBoundsRejected ==
    (InitReturned /\ image.magic /\ (PhdrTableExceeds \/ ShdrTableExceeds))
        => (initRet = "failure" /\ shReads = {})

\* C2, as stated: whenever elf_init returns failure every field of the
\* context equals its value before the call.
C2_FailureLeavesContext == initRet = "failure" => elf = elf0

\* C2, amended: when elf_init fails the magic check the context is as it
\* was before the call; when it fails a table bounds check the context has
\* been zeroed and holds the image, its size, the header handle, the class
\* and the byte order, and nothing else.
C2_FailureContext ==
    initRet = "failure" =>
        IF ~image.magic THEN elf = elf0
        ELSE /\ elf.image_base = "image"
             /\ elf.size = image.size
             /\ elf.ehdr = "image"
             /\ elf.class = image.class
             /\ elf.data = image.data
             /\ [elf EXCEPT !.image_base = "null", !.size = 0, !.ehdr = "null",
                            !.class = "none", !.data = "none"] = ZeroElf

\* A bounds failure on a context an earlier session left behind.
C2_Witness ==
    /\ initRet = "failure"
    /\ image.magic
    /\ elf0 = StaleElf
    /\ elf # elf0

Symtabs == {i \in 1 .. image.e_shnum : image.shdrs[i].sh_type = "SHT_SYMTAB"}

LinkValid(i) == image.shdrs[i].sh_link < image.e_shnum

LinkedStart(i) == ImagePtr(image.shdrs[image.shdrs[i].sh_link + 1].sh_offset)

Least(S) == CHOOSE i \in S : \A j \in S : i <= j

\* C8, as stated: after a successful elf_init the first section of
\* symbol-table type alone decides: it is recorded if its link is valid,
\* and the symbol table is absent if its link is invalid, whatever follows.
C8_FirstSymtabDecides ==
    initRet = "success" =>
        IF Symtabs = {} THEN elf.sym_tab = InvalidHandle
        ELSE IF LinkValid(Least(Symtabs))
             THEN /\ elf.sym_tab = Least(Symtabs)
                  /\ elf.sym_strtab = LinkedStart(Least(Symtabs))
             ELSE elf.sym_tab = InvalidHandle

\* C8, amended: after a successful elf_init the symbol table recorded is
\* the first section of symbol-table type whose sh_link names a valid
\* section, with the start of the linked section as its string table; the
\* symbol table is absent exactly when no section of symbol-table type has
\* a valid link.
C8_FirstLinkedSymtab ==
    initRet = "success" =>
        LET V == {i \in Symtabs : LinkValid(i)}
        IN  IF V = {}
            THEN elf.sym_tab = InvalidHandle /\ elf.sym_strtab = NullPtr
            ELSE /\ elf.sym_tab = Least(V)
                 /\ elf.sym_strtab = LinkedStart(Least(V))

\* A first symbol table with an invalid link, and a later one recorded.
C8_Witness ==
    /\ initRet = "success"
    /\ Symtabs # {}
    /\ ~LinkValid(Least(Symtabs))
    /\ elf.sym_tab # InvalidHandle
    /\ elf.sym_tab > Least(Symtabs)

(* --------------------------------------- properties: footprint and segments *)

Loadable == {i \in 1 .. image.e_phnum : image.phdrs[i].p_type = "PT_LOAD"}

Paddr(i) == image.phdrs[i].p_paddr

Memsz(i) == image.phdrs[i].p_memsz

Filesz(i) == image.phdrs[i].p_filesz

Offset(i) == image.phdrs[i].p_offset

Parsed == pc \in {"parsed", "ready", "loaded"}

\* pstart is the least paddr and pend the greatest paddr + memsz (the
\* 64-bit sum) of the loadable entries; the sentinel pair when there is none.
FootprintIsMinMax ==
    IF Loadable = {} THEN elf.pstart = ULONG_MAX /\ elf.pend = 0
    ELSE /\ \E i \in Loadable : elf.pstart = Paddr(i)
         /\ \A i \in Loadable : ULe(elf.pstart, Paddr(i))
         /\ \E i \in Loadable : elf.pend = Paddr(i) + Memsz(i)
         /\ \A i \in Loadable : ULe(Paddr(i) + Memsz(i), elf.pend)

\* C3, as stated: after elf_parse_binary pstart is the minimum paddr and
\* pend the maximum of (the true value of) paddr + memsz over exactly the
\* loadable entries, in any order; the sentinel pair (2^64 - 1, 0) when
\* no entry is loadable.
C3_FootprintTrueMax ==
    Parsed => /\ FootprintIsMinMax
              /\ \A i \in Loadable : ~Wraps(Paddr(i), Memsz(i))

\* C3, amended: after elf_parse_binary pstart is the minimum paddr and pend
\* the maximum of paddr + memsz taken modulo 2^64 (the sum as the code
\* computes it) over exactly the loadable entries, in any order; the
\* sentinel pair (2^64 - 1, 0) when no entry is loadable.
C3_Footprint == Parsed => FootprintIsMinMax

\* Two loadable entries, the later one the lower, beside the footprint.
C3_Witness ==
    /\ Parsed
    /\ Cardinality(Loadable) = 2
    /\ \E i, j \in Loadable : i < j /\ ULt(Paddr(j), Paddr(i))
                              /\ elf.pstart = Paddr(j)
                              /\ elf.pend = Paddr(i) + Memsz(i)

SegmentStores == {k \in 1 .. Len(log) : log[k].kind \in {"copy", "zero"}}

\* C10: for an image with a loadable entry, every loadable entry having
\* memsz >= filesz and a paddr + memsz that does not wrap, every byte
\* elf_load_binary stores (or tries to store) while copying and zero-filling
\* segments lies at an offset in [0, pend - pstart) from the destination
\* base.
C10_StoresInsideFootprint ==
    (/\ pc = "loaded"
     /\ Loadable # {}
     /\ \A i \in Loadable : ULe(Filesz(i), Memsz(i)) /\ ~Wraps(Paddr(i), Memsz(i)))
        => \A k \in SegmentStores :
              /\ log[k].n >= 0
              /\ \A j \in 0 .. log[k].n - 1 :
                    ULt(log[k].ptr - elf.dest_base + j, elf.pend - elf.pstart)

\* Two segments stored, the second one above the first.
C10_Witness ==
    /\ pc = "loaded"
    /\ Cardinality(Loadable) = 2
    /\ \A i \in Loadable : ULe(Filesz(i), Memsz(i)) /\ ~Wraps(Paddr(i), Memsz(i))
    /\ \E k \in SegmentStores : log[k].ok /\ log[k].n > 0 /\ log[k].idx = 1
                                /\ log[k].ptr > elf.dest_base

\* C5: in both regimes, if the copy or the zero-fill of a loadable segment
\* fails, elf_load_binary stops at that segment and returns failure: no
\* later store is made (no later segment, no embedded symbol table).
C5_FailedStoreAborts ==
    pc = "loaded" =>
        \A k \in SegmentStores :
            ~log[k].ok => (loadRet = "failure" /\ k = Len(log))

\* C6: in both regimes, a loadable entry whose zero-fill length
\* memsz - filesz wraps around is rejected: elf_load_binary returns failure
\* and stores no byte for that segment.
C6_OverflowRejected ==
    pc = "loaded" =>
        \A i \in Loadable :
            ULt(Memsz(i), Filesz(i)) =>
                /\ loadRet = "failure"
                /\ \A k \in SegmentStores :
                      log[k].idx = i - 1 => ~(log[k].ok /\ log[k].n > 0)

Longest(i) == IF Filesz(i) > Memsz(i) THEN Filesz(i) ELSE Memsz(i)

\* No other loadable entry's range meets that of entry i.
NotOverlapped(i) ==
    \A j \in Loadable \ {i} :
        \/ Paddr(i) + Memsz(i) <= Paddr(j)
        \/ Paddr(j) + Longest(j) <= Paddr(i)

\* The destination window holds byte v at offset o.
DestByteIs(o, v) == o >= 0 /\ o < elf.dest_size /\ MemAt(mem, o) = v

SegmentLoaded(i) ==
    LET off == Paddr(i) - elf.pstart
    IN  /\ \A k \in 0 .. Filesz(i) - 1 :
              DestByteIs(off + k, ImageByte(Offset(i) + k))
        /\ \A k \in Filesz(i) .. Memsz(i) - 1 : DestByteIs(off + k, 0)

\* C4: after elf_parse_binary and a successful elf_load_binary into a
\* zeroed destination (no symbol table embedded), every loadable entry with
\* memsz >= filesz that no other loadable entry overlaps, and whose file
\* bytes lie in the image, has its filesz file bytes at offset
\* paddr - pstart of the destination, followed by memsz - filesz zero
\* bytes; entries that are not loadable cause no store.
C4_SegmentsLoaded ==
    (pc = "loaded" /\ loadRet = "success" /\ ~SymRequested(elf)) =>
        /\ \A i \in Loadable :
              (/\ ULe(Filesz(i), Memsz(i))
               /\ SrcOk(elf, Offset(i), Filesz(i))
               /\ NotOverlapped(i)) => SegmentLoaded(i)
        /\ \A k \in SegmentStores : log[k].idx + 1 \in Loadable

(* ------------------------------------------ properties: the embedded symbols *)

SymStores == {k \in 1 .. Len(log) : log[k].kind \in {"sym", "prefix"}}

\* The size the sizing phase stored.
SymSize == elf.bsd_symtab_pend - elf.bsd_symtab_pstart

\* Where the embedded region starts in the destination.
SymBase == elf.dest_base + elf.bsd_symtab_pstart - elf.pstart

\* The end of the last byte the materialization stores (or tries to).
SymEnd == CHOOSE x \in {log[k].ptr + log[k].n : k \in SymStores} :
              \A k \in SymStores : log[k].ptr + log[k].n <= x

\* C9: elf_load_binary stores the embedded symbol table only after every
\* segment, and it stores it exactly when an earlier elf_parse_bsdsyms call
\* located a symbol table and stored a non-empty region, for every proposed
\* start address including 0; otherwise it stores nothing but segments.
C9_EmbedsWhenSized ==
    (pc = "loaded" /\ loadRet = "success") =>
        /\ \A k \in SymStores : \A j \in SegmentStores : j < k
        /\ (SymStores # {}) <=>
              (/\ bsdCalled
               /\ ELF_HANDLE_VALID(elf.sym_tab)
               /\ UGt(elf.bsd_symtab_pend, elf.bsd_symtab_pstart))

Embedded == pc = "loaded" /\ symWord.prefix.stored

====
